---- MODULE Spec2Model ----
(***************************************************************************)
(* Model of piu's command line workflow (src/piu/cli.py): one invocation   *)
(* of cli() parses [USER@]HOST, loads the YAML config, runs the two        *)
(* interactive setup loops, stores the config, obtains the password,       *)
(* normalises the service URL, decides the routing (first hop / remote     *)
(* host), sends one access request and updates the keyring from the        *)
(* returned status code.                                                   *)
(*                                                                         *)
(* Python strings are modelled as sequences of one-character strings, so   *)
(* that split, startswith, endswith, rstrip and format are computed the    *)
(* way the code computes them.  Python's None is the value None below.     *)
(***************************************************************************)
EXTENDS Integers, Sequences, FiniteSets, TLC

\* ------------------------------------------------------------------------
\* Bounds of the model
\* ------------------------------------------------------------------------

\* most trailing slashes appended to a service URL given as input
MaxSlashes == 2

\* most failed answers to the prompts of one setup loop run
MaxFailedPrompts == 2

\* ------------------------------------------------------------------------
\* Strings
\* ------------------------------------------------------------------------

None == <<"None">>

Truthy(s) == s # None /\ s # <<>>

\* x or y
Or(x, y) == IF Truthy(x) THEN x ELSE y

StartsWith(s, p) == Len(s) >= Len(p) /\ SubSeq(s, 1, Len(p)) = p

EndsWith(s, p) == Len(s) >= Len(p) /\ SubSeq(s, Len(s) - Len(p) + 1, Len(s)) = p

RECURSIVE RStrip(_, _)
RStrip(s, c) == IF s # <<>> /\ s[Len(s)] = c THEN RStrip(SubSeq(s, 1, Len(s) - 1), c) ELSE s

RECURSIVE LStrip(_, _)
LStrip(s, c) == IF s # <<>> /\ s[1] = c THEN LStrip(Tail(s), c) ELSE s

\* s.strip() for the only whitespace the model's inputs contain
Strip(s) == LStrip(RStrip(s, " "), " ")

\* s.split(sep): the list of the parts of s between the occurrences of sep
RECURSIVE SplitFrom(_, _, _)
SplitFrom(s, sep, cur) ==
    IF s = <<>> THEN <<cur>>
    ELSE IF s[1] = sep THEN <<cur>> \o SplitFrom(Tail(s), sep, <<>>)
    ELSE SplitFrom(Tail(s), sep, Append(cur, s[1]))

Split(s, sep) == SplitFrom(s, sep, <<>>)

\* ' '.join(words)
RECURSIVE Join(_)
Join(words) ==
    IF words = <<>> THEN <<>>
    ELSE IF Len(words) = 1 THEN words[1]
    ELSE words[1] \o <<" ">> \o Join(Tail(words))

Contains(s, p) == \E i \in 1..(Len(s) - Len(p) + 1) : SubSeq(s, i, i + Len(p) - 1) = p

AccessRequestsPath == <<"/", "a", "c", "c", "e", "s", "s", "-", "r", "e", "q", "u", "e", "s", "t", "s">>
HttpPrefix == <<"h", "t", "t", "p">>
HttpsScheme == <<"h", "t", "t", "p", "s", ":", "/", "/">>
OddPrefix == <<"o", "d", "d", "-">>
SshCmd == <<"s", "s", "h", " ", "-", "t", "A", " ">>
SshHop == <<"s", "s", "h", " ", "-", "o", " ", "S", "t", "r", "i", "c", "t", "H", "o", "s", "t", "K", "e", "y", "C", "h", "e", "c", "k", "i", "n", "g", "=", "n", "o", " ">>
Via == <<" ", "v", "i", "a", " ">>

KEYRING_KEY == "piu"

\* ------------------------------------------------------------------------
\* ipaddress.ip_address and STUPS_CIDR
\* ------------------------------------------------------------------------

Digits == {"0", "1", "2", "3", "4", "5", "6", "7", "8", "9"}
HexDigits == Digits \cup {"a", "b", "c", "d", "e", "f", "A", "B", "C", "D", "E", "F"}

DigitValue(c) ==
    CASE c = "0" -> 0 [] c = "1" -> 1 [] c = "2" -> 2 [] c = "3" -> 3 [] c = "4" -> 4
      [] c = "5" -> 5 [] c = "6" -> 6 [] c = "7" -> 7 [] c = "8" -> 8 [] c = "9" -> 9

RECURSIVE Decimal(_)
Decimal(s) == IF s = <<>> THEN 0 ELSE 10 * Decimal(SubSeq(s, 1, Len(s) - 1)) + DigitValue(s[Len(s)])

IsOctet(s) ==
    /\ Len(s) \in 1..3
    /\ \A i \in 1..Len(s) : s[i] \in Digits
    /\ (Len(s) > 1 => s[1] # "0")
    /\ Decimal(s) <= 255

IsIPv4(s) ==
    LET parts == Split(s, ".")
    IN  Len(parts) = 4 /\ \A i \in 1..4 : IsOctet(parts[i])

\* the four octets of a dotted quad
IPv4Octets(s) ==
    LET parts == Split(s, ".")
    IN  <<Decimal(parts[1]), Decimal(parts[2]), Decimal(parts[3]), Decimal(parts[4])>>

\* colon separated groups of at most four hex digits, with at most one "::"
IsIPv6(s) ==
    LET parts == Split(s, ":")
        n == Len(parts)
        skips == {i \in 2..(n - 1) : parts[i] = <<>>}
    IN  /\ n \in 3..9
        /\ \A i \in 1..n : Len(parts[i]) <= 4 /\ \A j \in 1..Len(parts[i]) : parts[i][j] \in HexDigits
        /\ Cardinality(skips) <= 1
        /\ (parts[1] = <<>> => parts[2] = <<>>)
        /\ (parts[n] = <<>> => parts[n - 1] = <<>>)
        /\ IF skips = {} THEN n = 8 ELSE Cardinality({i \in 1..n : parts[i] # <<>>}) <= 7

NoIp == [version |-> 0, octets |-> <<>>]

\* try: ip = ipaddress.ip_address(hostname) except ValueError: ip = None
ip_address(s) ==
    IF IsIPv4(s) THEN [version |-> 4, octets |-> IPv4Octets(s)]
    ELSE IF IsIPv6(s) THEN [version |-> 6, octets |-> <<>>]
    ELSE NoIp

\* ipaddress.ip_network('172.31.0.0/16')
STUPS_CIDR == [version |-> 4, octets |-> <<172, 31, 0, 0>>, prefix_octets |-> 2]

\* ip and ip in STUPS_CIDR
InStups(ip) ==
    /\ ip # NoIp
    /\ ip.version = STUPS_CIDR.version
    /\ \A i \in 1..STUPS_CIDR.prefix_octets : ip.octets[i] = STUPS_CIDR.octets[i]

\* ------------------------------------------------------------------------
\* Dictionaries, the config file and the keyring
\* ------------------------------------------------------------------------

EmptyDict == [k \in {} |-> 0]

\* d[key] = v
DictSet(d, key, v) == [k \in DOMAIN d \cup {key} |-> IF k = key THEN v ELSE d[k]]

\* d.get(key)
DictGet(d, key) == IF key \in DOMAIN d THEN d[key] ELSE None

\* the file at config_file: missing, a YAML document that is no mapping, or a mapping
MissingFile == [kind |-> "missing", dict |-> EmptyDict]
OtherFile == [kind |-> "other", dict |-> EmptyDict]
DictFile(d) == [kind |-> "dict", dict |-> d]

load_config(f) == IF f.kind = "dict" THEN f.dict ELSE EmptyDict

store_config(cfg) == DictFile(cfg)

\* keyring.get_password(service, name)
get_password(kr, service, name) == kr[<<service, name>>]

\* keyring.set_password(service, name, pw)
set_password(kr, service, name, pw) == [kr EXCEPT ![<<service, name>>] = pw]

\* ------------------------------------------------------------------------
\* Inputs
\* ------------------------------------------------------------------------

UserA == <<"a">>
UserB == <<"b">>
Users == {UserA, UserB}

PwOption == <<"p">>
PwStored == <<"k">>
PwPrompted == <<"q">>

HostStups == <<"1", "7", "2", ".", "3", "1", ".", "0", ".", "5">>
HostOtherIp == <<"1", "7", "2", ".", "3", "2", ".", "0", ".", "5">>
HostBadIp == <<"1", "7", "2", ".", "3", "1", ".", "0", ".", "2", "5", "6">>
HostV6 == <<":", ":", "1">>
HostOdd == <<"o", "d", "d", "-", "a">>
HostWeb == <<"w", "e", "b">>
Bastion == <<"b", "a", "s", "t">>

Targets == {HostStups, HostOtherIp, HostBadIp, HostV6, HostOdd, HostWeb}

WithUser(u, h) == u \o <<"@">> \o h

UrlBase == <<"h", "t", "t", "p", ":", "/", "/", "e">>
NearMissPath == <<"/", "a", "c", "c", "e", "s", "s", "-", "r", "e", "q", "u", "e", "s", "t">>

RECURSIVE Slashes(_)
Slashes(n) == IF n = 0 THEN <<>> ELSE <<"/">> \o Slashes(n - 1)

\* service URLs given by option, environment or config file
EvenUrls == {UrlBase \o path \o Slashes(n) : path \in {<<>>, AccessRequestsPath, NearMissPath}, n \in 0..MaxSlashes}

\* answers typed at the service URL prompt and at the bastion prompt
UrlAnswers == {<<"e">>, <<"h", "t", "t", "p", ":", "/", "/", "f", "/">>}
OddAnswers == {Bastion, HostStups}

Statuses == {200, 403, 404, 500}
Bodies == {"body1", "body2"}

NoLifetime == <<>>

ReasonWords == <<"t", "e", "s", "t">>

ArgSet(H, U, P, E, O, I, L, C, R) ==
    [host : H, user : U, password : P, even_url : E, odd_host : O, insecure : I, lifetime : L, clip : C,
     reason : {ReasonWords}, reason_cont : R]

\* the invocations of the model: each family varies some of the arguments
RoutingArgs ==
    ArgSet(Targets \cup {WithUser(UserB, HostStups), WithUser(UserB, HostOdd)}, {UserA}, {PwOption}, {UrlBase},
           {None, <<>>, HostOdd, Bastion}, {FALSE}, {NoLifetime}, {FALSE}, {<<>>})

CredentialArgs ==
    ArgSet({HostWeb, WithUser(UserB, HostWeb), WithUser(UserA, HostWeb)}, Users, {None, <<>>, PwOption}, {UrlBase},
           {None}, {FALSE}, {NoLifetime}, {FALSE}, {<<>>})

TlsArgs ==
    ArgSet({HostWeb}, {UserA}, {PwOption}, {None, UrlBase}, {None, Bastion}, BOOLEAN, {NoLifetime}, {FALSE}, {<<>>})

UrlArgs ==
    ArgSet({HostWeb}, {UserA}, {PwOption}, EvenUrls \cup {None, <<>>}, {None}, {FALSE}, {NoLifetime}, {FALSE}, {<<>>})

OtherArgs ==
    ArgSet({HostWeb}, {UserA}, {PwOption}, {UrlBase}, {None, Bastion}, {FALSE},
           {NoLifetime, <<0>>, <<60>>, <<600000>>}, BOOLEAN, {<<>>, <<<<" ">>, <<"i", "t">>, <<>>>>})

SetupArgs ==
    ArgSet({HostStups}, {UserA}, {PwOption}, {None, <<>>}, {None}, {FALSE},
           {NoLifetime}, {FALSE}, {<<>>})

Invocations == RoutingArgs \cup CredentialArgs \cup TlsArgs \cup UrlArgs \cup SetupArgs \cup OtherArgs

ConfigDicts ==
    {EmptyDict,
     DictSet(EmptyDict, "cacert", TRUE),
     DictSet(EmptyDict, "cacert", FALSE),
     DictSet(EmptyDict, "odd_host", <<>>),
     DictSet(EmptyDict, "odd_host", Bastion),
     DictSet(EmptyDict, "even_url", UrlBase \o <<"/">>),
     DictSet(DictSet(DictSet(EmptyDict, "even_url", UrlBase), "odd_host", Bastion), "cacert", TRUE)}

ConfigFiles == {MissingFile, OtherFile} \cup {DictFile(d) : d \in ConfigDicts}

KeyringKeys == {KEYRING_KEY} \X Users

\* what the keyring holds when cli starts: nothing, a stored password, or an
\* entry emptied by an earlier run that was answered with 403
Keyrings == [KeyringKeys -> {None, <<>>, PwStored}]

\* ------------------------------------------------------------------------
\* State
\* ------------------------------------------------------------------------

VARIABLES
    pc,          \* position of the run in cli()
    args,        \* the parsed command line (options, environment defaults)
    file,        \* the file at config_file
    keyring,     \* the OS keyring
    loaded,      \* the mapping load_config returned to this run
    username, hostname, ip, reason, lifetime, cacert, config, even_url, odd_host,
    password, first_host, remote_host, return_code,
    token_calls, \* the calls of zign.api.get_named_token
    posts,       \* the calls of requests.post
    response,    \* the answer of the service
    output,      \* what was printed, in order
    clipboard,   \* what pyperclip.copy received
    probed,      \* URLs that requests.get reached in this run
    resolved,    \* hostnames that socket.getaddrinfo resolved in this run
    errors,      \* values reported by error() in this run
    prompts,     \* the prompts shown in this run
    failures     \* number of failed prompt answers in this run

vars == <<pc, args, file, keyring, loaded, username, hostname, ip, reason, lifetime, cacert, config, even_url,
          odd_host, password, first_host, remote_host, return_code, token_calls, posts, response,
          output, clipboard, probed, resolved, errors, prompts, failures>>

env == <<args, file, keyring>>
parsed == <<loaded, username, hostname, ip, reason, lifetime, cacert>>
routing == <<first_host, remote_host>>
network == <<token_calls, posts, response, output, clipboard, return_code>>
setup == <<probed, resolved, errors, prompts, failures>>

NoResponse == [status_code |-> 0, text |-> ""]

\* the state of a process that has just entered cli()
Fresh ==
    /\ pc = "start"
    /\ loaded = EmptyDict
    /\ username = None /\ hostname = None /\ ip = NoIp /\ reason = None /\ lifetime = NoLifetime
    /\ cacert = TRUE /\ config = EmptyDict /\ even_url = None /\ odd_host = None
    /\ password = None /\ first_host = None /\ remote_host = None /\ return_code = 0
    /\ token_calls = <<>> /\ posts = <<>> /\ response = NoResponse /\ output = <<>>
    /\ clipboard = None
    /\ probed = {} /\ resolved = {} /\ errors = {} /\ prompts = {} /\ failures = 0

Init ==
    /\ args \in Invocations
    /\ file \in ConfigFiles
    /\ keyring \in Keyrings
    /\ Fresh

\* ------------------------------------------------------------------------
\* cli(), lines 117-139: parse the arguments and load the config
\* ------------------------------------------------------------------------

MinLifetime == 1
MaxLifetime == 525600

\* click.IntRange(1, 525600, clamp=True)
IntRange(l) ==
    IF l = NoLifetime THEN NoLifetime
    ELSE IF l[1] < MinLifetime THEN <<MinLifetime>>
    ELSE IF l[1] > MaxLifetime THEN <<MaxLifetime>>
    ELSE l

\* username = parts[0] if len(parts) > 1 else user
ParseUsername(host, user) ==
    LET parts == Split(host, "@") IN IF Len(parts) > 1 THEN parts[1] ELSE user

\* hostname = parts[-1]
ParseHostname(host) ==
    LET parts == Split(host, "@") IN parts[Len(parts)]

\* cacert = not insecure; if 'cacert' in config: cacert = config['cacert']
Cacert(insecure, cfg) == IF "cacert" \in DOMAIN cfg THEN cfg["cacert"] ELSE ~insecure

Parse ==
    /\ pc = "start"
    /\ username' = ParseUsername(args.host, args.user)
    /\ hostname' = ParseHostname(args.host)
    /\ ip' = ip_address(ParseHostname(args.host))
    /\ reason' = Strip(Join(<<args.reason>> \o args.reason_cont))
    /\ lifetime' = IntRange(args.lifetime)
    /\ loaded' = load_config(file)
    /\ config' = load_config(file)
    /\ cacert' = Cacert(args.insecure, load_config(file))
    /\ even_url' = Or(args.even_url, DictGet(load_config(file), "even_url"))
    /\ odd_host' = Or(args.odd_host, DictGet(load_config(file), "odd_host"))
    /\ pc' = "setup"
    /\ UNCHANGED <<env, password, routing, network, setup>>

\* ------------------------------------------------------------------------
\* cli(), lines 141-162: the setup loops and store_config
\* ------------------------------------------------------------------------

\* convenience for humans: add HTTPS by default
WithScheme(answer) == IF StartsWith(answer, HttpPrefix) THEN answer ELSE HttpsScheme \o answer

\* mutant: a failed answer is kept
CheckedKept(value, ok) == value

\* the value the loop variable and the config entry get after a checked answer
Checked(value, ok) == IF ok THEN value ELSE None

NeedsEvenUrl == ~Truthy(even_url)

\* mutant: only a missing bastion, not an empty one, asks for the prompt
NeedsOddHostOnlyNone == InStups(ip) /\ odd_host = None

NeedsOddHost == InStups(ip) /\ ~Truthy(odd_host)

\* one iteration of: while not even_url
PromptEvenUrl ==
    /\ pc = "setup"
    /\ NeedsEvenUrl
    /\ \E answer \in UrlAnswers, ok \in BOOLEAN :
        /\ ok \/ failures < MaxFailedPrompts
        /\ even_url' = Checked(WithScheme(answer), ok)
        /\ config' = DictSet(config, "even_url", Checked(WithScheme(answer), ok))
        /\ probed' = IF ok THEN probed \cup {WithScheme(answer)} ELSE probed
        /\ errors' = IF ok THEN errors ELSE errors \cup {WithScheme(answer)}
        /\ failures' = IF ok THEN failures ELSE failures + 1
    /\ prompts' = prompts \cup {"even_url"}
    /\ UNCHANGED <<pc, env, parsed, odd_host, password, routing, network, resolved>>

\* one iteration of: while ip and ip in STUPS_CIDR and not odd_host
PromptOddHost ==
    /\ pc = "setup"
    /\ ~NeedsEvenUrl
    /\ NeedsOddHost
    /\ \E answer \in OddAnswers, ok \in BOOLEAN :
        /\ ok \/ failures < MaxFailedPrompts
        /\ odd_host' = Checked(answer, ok)
        /\ config' = DictSet(config, "odd_host", Checked(answer, ok))
        /\ resolved' = IF ok THEN resolved \cup {answer} ELSE resolved
        /\ errors' = IF ok THEN errors ELSE errors \cup {answer}
        /\ failures' = IF ok THEN failures ELSE failures + 1
    /\ prompts' = prompts \cup {"odd_host"}
    /\ UNCHANGED <<pc, env, parsed, even_url, password, routing, network, probed>>

\* store_config(config, config_file), reached when both loops have exited
StoreConfig ==
    /\ pc = "setup"
    /\ ~NeedsEvenUrl
    /\ ~NeedsOddHost
    /\ file' = store_config(config)
    /\ pc' = "password"
    /\ UNCHANGED <<args, keyring, parsed, config, even_url, odd_host, password, routing, network, setup>>

\* ------------------------------------------------------------------------
\* cli(), lines 164-183: password, URL normalisation and routing
\* ------------------------------------------------------------------------

PasswordAnswers == {PwPrompted}

\* password = password or keyring.get_password(KEYRING_KEY, user)
KnownPassword(a, kr) == Or(a.password, get_password(kr, KEYRING_KEY, a.user))

GetPassword ==
    /\ pc = "password"
    /\ \E answer \in PasswordAnswers :
        /\ password' = IF Truthy(KnownPassword(args, keyring)) THEN KnownPassword(args, keyring) ELSE answer
        /\ prompts' = IF Truthy(KnownPassword(args, keyring)) THEN prompts ELSE prompts \cup {"password"}
    /\ pc' = "route"
    /\ UNCHANGED <<env, parsed, config, even_url, odd_host, routing, network, probed, resolved, errors, failures>>

\* mutant: the path is appended whatever the URL ends with
NormalizeUrlAlwaysAppend(u) == RStrip(u, "/") \o AccessRequestsPath

\* if not even_url.endswith('/access-requests'): even_url = even_url.rstrip('/') + '/access-requests'
NormalizeUrl(u) == IF EndsWith(u, AccessRequestsPath) THEN u ELSE RStrip(u, "/") \o AccessRequestsPath

\* first_host = hostname; if odd_host: first_host = odd_host
ViaHost(h, o) == IF Truthy(o) THEN o ELSE h

\* mutant: the bastion stays the first hop of a target named odd-...
FirstHostAlwaysVia(h, o) == ViaHost(h, o)

\* first_host after lines 172-183
FirstHost(h, o) ==
    IF ViaHost(h, o) = h THEN ViaHost(h, o)
    ELSE IF StartsWith(h, OddPrefix) THEN h
    ELSE ViaHost(h, o)

\* mutant: the target keeps being the remote host when it is the first hop
RemoteHostKept(h, o) ==
    IF ViaHost(h, o) = h THEN h
    ELSE IF StartsWith(h, OddPrefix) THEN None
    ELSE h

\* remote_host after lines 172-183
RemoteHost(h, o) ==
    IF ViaHost(h, o) = h THEN None
    ELSE IF StartsWith(h, OddPrefix) THEN None
    ELSE h

Route ==
    /\ pc = "route"
    /\ even_url' = NormalizeUrl(even_url)
    /\ first_host' = FirstHost(hostname, odd_host)
    /\ remote_host' = RemoteHost(hostname, odd_host)
    /\ pc' = "request"
    /\ UNCHANGED <<env, parsed, config, odd_host, password, network, setup>>

\* ------------------------------------------------------------------------
\* request_access(), lines 63-95
\* ------------------------------------------------------------------------

\* data = {'username': .., 'hostname': .., 'reason': ..} plus the optional keys
RequestData(uname, host, why, remote, life) ==
    LET base == [username |-> uname, hostname |-> host, reason |-> why]
        with_remote == IF Truthy(remote) THEN DictSet(base, "remote_host", remote) ELSE base
    IN  IF life # NoLifetime /\ life[1] # 0 THEN DictSet(with_remote, "lifetime_minutes", life[1]) ELSE with_remote

\* host_via = hostname, or '{} via {}'.format(remote_host, hostname)
HostVia(host, remote) == IF Truthy(remote) THEN remote \o Via \o host ELSE host

\* the bearer token the token provider hands out for these credentials
AccessToken(user, pw) == <<"token", user, pw>>

\* verify=cacert
Verify(ca) == ca

Post ==
    /\ pc = "request"
    /\ token_calls' = Append(token_calls, [scope |-> "uid", realm |-> "employees", client |-> "piu",
                                           user |-> args.user, password |-> password])
    /\ output' = Append(output, [msg |-> "requesting", host_via |-> HostVia(first_host, remote_host),
                                 username |-> username])
    /\ posts' = Append(posts, [url |-> even_url,
                               authorization |-> AccessToken(args.user, password),
                               data |-> RequestData(username, first_host, reason, remote_host, lifetime),
                               verify |-> Verify(cacert)])
    /\ pc' = "await"
    /\ UNCHANGED <<env, parsed, config, even_url, odd_host, password, routing, response, clipboard,
                   return_code, setup>>

\* ssh_command = 'ssh -o StrictHostKeyChecking=no {username}@{remote_host}' if remote_host else ''
SshCommand(uname, remote) == IF Truthy(remote) THEN SshHop \o uname \o <<"@">> \o remote ELSE <<>>

\* command = 'ssh -tA {username}@{hostname} {ssh_command}'
Command(uname, host, remote) == SshCmd \o uname \o <<"@">> \o host \o <<" ">> \o SshCommand(uname, remote)

\* what request_access prints once the response r is there
Report(status, text, uname, host, remote) ==
    IF status = 200
    THEN <<[msg |-> "text", text |-> text], [msg |-> "command", command |-> Command(uname, host, remote)]>>
    ELSE <<[msg |-> "status", code |-> status, text |-> text]>>

Respond ==
    /\ pc = "await"
    /\ \E status \in Statuses, text \in Bodies, have_pyperclip \in BOOLEAN :
        /\ response' = [status_code |-> status, text |-> text]
        /\ output' = output \o Report(status, text, username, first_host, remote_host)
        /\ clipboard' = IF status = 200 /\ args.clip /\ have_pyperclip
                        THEN Command(username, first_host, remote_host)
                        ELSE clipboard
        /\ return_code' = status
    /\ pc' = "returned"
    /\ UNCHANGED <<env, parsed, config, even_url, odd_host, password, routing, token_calls, posts, setup>>

\* ------------------------------------------------------------------------
\* cli(), lines 188-193: keep or forget the password
\* ------------------------------------------------------------------------

\* mutant: the entry of the username sent in the request
KeyringNameOfRequest(a, uname) == uname

\* the keyring entry the run writes
KeyringName(a, uname) == a.user

\* mutant: a 403 leaves the stored password alone
UpdateKeyringKeepOn403(kr, code, name, pw) ==
    IF code = 200 THEN set_password(kr, KEYRING_KEY, name, pw) ELSE kr

\* mutant: a 200 does not store the password
UpdateKeyringNoStore(kr, code, name, pw) ==
    IF code = 403 THEN set_password(kr, KEYRING_KEY, name, <<>>) ELSE kr

\* mutant: every status but 200 empties the entry
UpdateKeyringClearOnFailure(kr, code, name, pw) ==
    IF code = 200 THEN set_password(kr, KEYRING_KEY, name, pw) ELSE set_password(kr, KEYRING_KEY, name, <<>>)

\* the keyring after the status code has been looked at
UpdateKeyring(kr, code, name, pw) ==
    IF code = 200 THEN set_password(kr, KEYRING_KEY, name, pw)
    ELSE IF code = 403 THEN set_password(kr, KEYRING_KEY, name, <<>>)
    ELSE kr

Finish ==
    /\ pc = "returned"
    /\ keyring' = UpdateKeyring(keyring, return_code, KeyringName(args, username), password)
    /\ pc' = "done"
    /\ UNCHANGED <<args, file, parsed, config, even_url, odd_host, password, routing, network, setup>>

\* ------------------------------------------------------------------------
\* main(): the same command line is run again, in a new process
\* ------------------------------------------------------------------------

Rerun ==
    /\ pc = "done"
    /\ pc' = "start"
    /\ loaded' = EmptyDict
    /\ username' = None /\ hostname' = None /\ ip' = NoIp /\ reason' = None /\ lifetime' = NoLifetime
    /\ cacert' = TRUE /\ config' = EmptyDict /\ even_url' = None /\ odd_host' = None
    /\ password' = None /\ first_host' = None /\ remote_host' = None /\ return_code' = 0
    /\ token_calls' = <<>> /\ posts' = <<>> /\ response' = NoResponse /\ output' = <<>>
    /\ clipboard' = None
    /\ probed' = {} /\ resolved' = {} /\ errors' = {} /\ prompts' = {} /\ failures' = 0
    /\ UNCHANGED env

Next ==
    \/ Parse
    \/ PromptEvenUrl
    \/ PromptOddHost
    \/ StoreConfig
    \/ GetPassword
    \/ Route
    \/ Post
    \/ Respond
    \/ Finish
    \/ Rerun

Spec == Init /\ [][Next]_vars

\* ------------------------------------------------------------------------
\* Properties
\* ------------------------------------------------------------------------

\* the inputs of the run, as the claims speak of them
TargetOf(a) == ParseHostname(a.host)
SuppliedOddHost == Or(args.odd_host, DictGet(loaded, "odd_host"))
Posted == posts # <<>>
HasRemoteHost(post) == "remote_host" \in DOMAIN post.data
Commands == {output[i].command : i \in {j \in 1..Len(output) : output[j].msg = "command"}}

\* C1: for a target that is a literal IP inside 172.31.0.0/16 with no bastion
\* given by option, environment or config file (an empty string is none), the
\* POST is only sent once a bastion has been prompted for and has resolved:
\* no state has a POST for such a target with an empty odd_host.
C1_BastionBeforePost ==
    (Posted /\ InStups(ip_address(TargetOf(args))) /\ ~Truthy(SuppliedOddHost))
        => /\ Truthy(odd_host)
           /\ "odd_host" \in prompts
           /\ odd_host \in resolved
           /\ posts[1].data.hostname = odd_host \/ odd_host = TargetOf(args)

C1_Witness ==
    /\ Posted
    /\ TargetOf(args) = HostStups
    /\ args.odd_host = <<>>
    /\ ~Truthy(DictGet(loaded, "odd_host"))
    /\ odd_host = Bastion
    /\ Bastion \in errors

\* C2: the request never names its first hop as remote_host; when first hop
\* and target coincide remote_host is absent from the body and the printed
\* ssh command has no second hop.
C2_NoTunnelThroughSelf ==
    \A i \in 1..Len(posts) :
        /\ HasRemoteHost(posts[i]) => posts[i].data.remote_host # posts[i].data.hostname
        /\ posts[i].data.hostname = TargetOf(args)
              => /\ ~HasRemoteHost(posts[i])
                 /\ \A c \in Commands : ~Contains(c, SshHop)

C2_Witness ==
    /\ Posted
    /\ args.odd_host = TargetOf(args)
    /\ Commands # {}

\* C3: a target named odd-... with a configured bastion other than the target
\* is requested with the target itself as first hop and without remote_host.
C3_OddTargetDirect ==
    (Posted /\ StartsWith(TargetOf(args), OddPrefix) /\ Truthy(SuppliedOddHost) /\ SuppliedOddHost # TargetOf(args))
        => /\ posts[1].data.hostname = TargetOf(args)
           /\ posts[1].data.hostname # SuppliedOddHost
           /\ ~HasRemoteHost(posts[1])

C3_Witness ==
    /\ Posted
    /\ TargetOf(args) = HostOdd
    /\ SuppliedOddHost = Bastion

\* C4: with --insecure the POST is sent with verify = false, whatever the
\* loaded config holds, a cacert key included.
C4_InsecureDisablesVerify ==
    (Posted /\ args.insecure) => posts[1].verify = FALSE

\* the entry of the user the run authenticates as
StoredFor(name) == get_password(keyring, KEYRING_KEY, name)

\* C5: after a 403 the run ends with the stored credential of the user set to
\* the empty string, whichever way the password was obtained, and a run that
\* finds the emptied entry and has no password option prompts for one.
C5_ClearedOn403 ==
    /\ (pc = "done" /\ response.status_code = 403) => StoredFor(args.user) = <<>>
    /\ (pc \in {"route", "request", "await", "returned"} /\ StoredFor(args.user) = <<>> /\ ~Truthy(args.password))
          => "password" \in prompts /\ password \in PasswordAnswers

C5_Witness ==
    /\ pc = "done"
    /\ response.status_code = 403
    /\ password = PwStored
    /\ StoredFor(args.user) = <<>>

\* the password the claim expects the run to use: option or environment, else
\* the stored one, else the prompted one
ExpectedPassword(p) ==
    IF Truthy(args.password) THEN p = args.password
    ELSE IF Truthy(StoredFor(args.user)) THEN p = StoredFor(args.user)
    ELSE p \in PasswordAnswers

\* C6: after a 200 the run ends with the store holding, for the user, the very
\* password that was passed to the token provider (option/environment value,
\* else keyring value, else prompted value), and the store is not written
\* before the response of the POST is there.
C6_StoredOn200 ==
    /\ [](/\ (pc = "done" /\ response.status_code = 200)
                => /\ Len(token_calls) = 1
                   /\ StoredFor(args.user) = token_calls[1].password
                   /\ Truthy(StoredFor(args.user))
          /\ (pc \in {"await", "returned"}) => ExpectedPassword(token_calls[1].password))
    /\ [][(response = NoResponse /\ pc # "done") => keyring' = keyring]_vars

C6_Witness ==
    /\ pc = "done"
    /\ response.status_code = 200
    /\ args.password = PwOption
    /\ StoredFor(args.user) = PwOption

\* C7: a status other than 200 and 403 leaves the credential store as it was,
\* is reported with the status code and the body, and no second POST is made.
C7_OtherStatusFrame ==
    /\ [](response.status_code \notin {0, 200, 403}
             => /\ output[Len(output)] = [msg |-> "status", code |-> response.status_code, text |-> response.text]
                /\ Len(posts) = 1)
    /\ [][(pc # "done" /\ return_code \notin {200, 403}) => keyring' = keyring]_vars

C7_Witness ==
    /\ pc = "done"
    /\ response.status_code = 500
    /\ StoredFor(args.user) = PwStored
    /\ password = PwOption

\* the part of [USER@]HOST before its first @
BeforeFirstAt(h) ==
    LET n == CHOOSE i \in 1..Len(h) : h[i] = "@" /\ \A j \in 1..(i - 1) : h[j] # "@"
    IN  SubSeq(h, 1, n - 1)

\* C8 as claimed: the entry read, written and cleared is the one of the
\* username that is sent in the request body.
C8_KeyedByRequestUsername ==
    [][\A k \in KeyringKeys : keyring'[k] # keyring[k] => k = <<KEYRING_KEY, posts[1].data.username>>]_vars

\* C8 as amended: the entry read, written and cleared is the one of --user/USER,
\* the user handed to the token provider; the request body carries that name
\* when the host argument has no user@ prefix and the prefix otherwise.
C8_KeyedByUser ==
    /\ [][\A k \in KeyringKeys : keyring'[k] # keyring[k]
              => k = <<KEYRING_KEY, args.user>> /\ k = <<KEYRING_KEY, token_calls[1].user>>]_vars
    /\ [](Posted => /\ (pc # "done" /\ ~Truthy(args.password) /\ "password" \notin prompts)
                          => token_calls[1].password = StoredFor(args.user)
                    /\ posts[1].data.username =
                          IF Contains(args.host, <<"@">>) THEN BeforeFirstAt(args.host) ELSE args.user)

C8_Witness ==
    /\ pc = "done"
    /\ response.status_code = 200
    /\ posts[1].data.username = UserB
    /\ args.user = UserA
    /\ StoredFor(UserA) = PwPrompted
    /\ StoredFor(UserB) = PwStored

\* the URL the run was given by option or environment
GivenUrl == args.even_url
Front(s) == SubSeq(s, 1, Len(s) - 1)
EndsWithSlash(s) == s # <<>> /\ s[Len(s)] = "/"

\* p is s without its trailing slashes, followed by the path
StrippedThenPath(s, p) ==
    \E n \in 0..Len(s) :
        /\ n > 0 => s[n] # "/"
        /\ \A i \in (n + 1)..Len(s) : s[i] = "/"
        /\ p = SubSeq(s, 1, n) \o AccessRequestsPath

\* C9 as claimed: a URL ending with /access-requests is used unchanged, any
\* other one loses its trailing slashes and gets the path appended, and for
\* every u both u + '/' and u + '/access-requests' are POSTed to as
\* u + '/access-requests'; the POSTed URL ends with the path; idempotence.
C9_UrlNormalizationAnyBase ==
    (Posted /\ Truthy(GivenUrl)) =>
        /\ Len(posts) = 1
        /\ EndsWith(posts[1].url, AccessRequestsPath)
        /\ EndsWith(GivenUrl, AccessRequestsPath) => posts[1].url = GivenUrl
        /\ ~EndsWith(GivenUrl, AccessRequestsPath) => StrippedThenPath(GivenUrl, posts[1].url)
        /\ EndsWithSlash(GivenUrl) => posts[1].url = Front(GivenUrl) \o AccessRequestsPath
        /\ NormalizeUrl(posts[1].url) = posts[1].url

\* C9 as amended: the same, with u + '/' leading to u + '/access-requests'
\* for the u that do not themselves end with a slash.
C9_UrlNormalization ==
    (Posted /\ Truthy(GivenUrl)) =>
        /\ Len(posts) = 1
        /\ EndsWith(posts[1].url, AccessRequestsPath)
        /\ EndsWith(GivenUrl, AccessRequestsPath) => posts[1].url = GivenUrl
        /\ ~EndsWith(GivenUrl, AccessRequestsPath) => StrippedThenPath(GivenUrl, posts[1].url)
        /\ (EndsWithSlash(GivenUrl) /\ ~EndsWithSlash(Front(GivenUrl)))
              => posts[1].url = Front(GivenUrl) \o AccessRequestsPath
        /\ NormalizeUrl(posts[1].url) = posts[1].url

C9_Witness ==
    /\ Posted
    /\ GivenUrl = UrlBase \o <<"/">>
    /\ posts[1].url = UrlBase \o AccessRequestsPath

\* C10: a failed answer at a setup prompt is reported and followed by another
\* prompt; the config file is written and the request sent only when both
\* loops have exited, and then every prompted even_url / odd_host, which is
\* what the config file gets, passed its probe / resolution and is not empty.
C10_SetupLoops ==
    /\ [][failures' > failures => /\ pc' = "setup"
                                  /\ errors' # {}
                                  /\ (NeedsEvenUrl \/ NeedsOddHost)']_vars
    /\ [][(file' # file \/ posts' # posts) => (pc \notin {"start", "setup"} \/ (~NeedsEvenUrl /\ ~NeedsOddHost))]_vars
    /\ [](pc \in {"password", "route", "request", "await", "returned", "done"}
            => /\ "even_url" \in prompts
                   => /\ Truthy(file.dict["even_url"])
                      /\ file.dict["even_url"] \in probed
               /\ "odd_host" \in prompts
                   => /\ Truthy(file.dict["odd_host"])
                      /\ file.dict["odd_host"] \in resolved
                      /\ odd_host = file.dict["odd_host"])

C10_Witness ==
    /\ Posted
    /\ {"even_url", "odd_host"} \subseteq prompts
    /\ errors \cap OddAnswers # {}
    /\ errors \ OddAnswers # {}
    /\ file.dict["odd_host"] \notin errors

====
